---------------------------- MODULE Spec2Model ----------------------------
(***************************************************************************)
(* Model of trainer/preprocess.py: the record parser buildExample, the     *)
(* partitioner partition_fn and the Beam pipeline that main() builds and   *)
(* runs (ReadData -> buildExamples -> Partition -> *_writeExamples).       *)
(*                                                                         *)
(* Strings are sequences of one-character strings.  The runtime is         *)
(* CPython 3: str() of a str is the same string, and the builtin hash()    *)
(* of a str depends on the hash secret of the calling process.             *)
(***************************************************************************)
EXTENDS Integers, Sequences, FiniteSets, TLC

VARIABLES
    status,          \* where the program is: see the three specifications
    counters,        \* the four Metrics counters, by name
    raw_input,       \* buildExample call: its argument
    yielded,         \* buildExample call: the values the generator yielded
    raised,          \* buildExample call: an exception left the generator
    example,         \* partition_fn call: its first argument
    num_partitions,  \* partition_fn call: its second argument
    hashed,          \* partition_fn call: what hash(str(id)) returned
    returned,        \* partition_fn call: the value it returned
    files,           \* the files DATA_DIR/* matches, each a sequence of lines
    raw,             \* PCollection out of ReadData
    examples,        \* PCollection out of buildExamples
    examples_split,  \* the three PCollections out of beam.Partition
    sinks,           \* records written, by file_path_prefix
    calls            \* how often each input line was passed to buildExample

vars == <<status, counters, raw_input, yielded, raised, example,
          num_partitions, hashed, returned, files, raw, examples,
          examples_split, sinks, calls>>

-----------------------------------------------------------------------------
(* Bounds *)

MaxLen == 6        \* longest raw line given to buildExample on its own
MaxExLen == 3      \* longest raw line behind an example given to partition_fn
MaxHash == 120     \* hash() values range over -MaxHash .. MaxHash
MaxParts == 3      \* num_partitions ranges over 0 .. MaxParts
MaxFiles == 2      \* input files of one job
MaxLines == 4      \* lines of one job, headers included

-----------------------------------------------------------------------------
(* Strings *)

Chars == {"0", "1", ",", ".", "-", " ", "a"}

Strings(n) == UNION {[1..k -> Chars] : k \in 0..n}

RECURSIVE IndexFrom(_, _, _)
\* the first position >= i of s that holds c; 0 when there is none
IndexFrom(s, c, i) ==
    IF i > Len(s) THEN 0
    ELSE IF s[i] = c THEN i
    ELSE IndexFrom(s, c, i + 1)

RECURSIVE split(_, _)
\* str.split(sep) for a one-character sep: always at least one field
split(s, sep) ==
    LET i == IndexFrom(s, sep, 1)
    IN  IF i = 0 THEN <<s>>
        ELSE <<SubSeq(s, 1, i - 1)>> \o split(SubSeq(s, i + 1, Len(s)), sep)

-----------------------------------------------------------------------------
(* float(str) *)

Whitespace == {" "}
Digits == {"0", "1"}
DigitVal(c) == IF c = "1" THEN 1 ELSE 0

RECURSIVE lstrip(_)
lstrip(s) ==
    IF s # <<>> /\ s[1] \in Whitespace THEN lstrip(Tail(s)) ELSE s

RECURSIVE rstrip(_)
rstrip(s) ==
    IF s # <<>> /\ s[Len(s)] \in Whitespace
    THEN rstrip(SubSeq(s, 1, Len(s) - 1)) ELSE s

strip(s) == rstrip(lstrip(s))

RECURSIVE DecimalOf(_)
\* the number a sequence of digits denotes
DecimalOf(ds) ==
    IF ds = <<>> THEN 0
    ELSE 10 * DecimalOf(SubSeq(ds, 1, Len(ds) - 1)) + DigitVal(ds[Len(ds)])

RECURSIVE Normal(_)
\* a float as sign, mantissa and decimal exponent: mant * 10^(-exp);
\* trailing zeros of the fraction do not change the value
Normal(f) ==
    IF f.exp > 0 /\ f.mant % 10 = 0
    THEN Normal([f EXCEPT !.mant = f.mant \div 10, !.exp = f.exp - 1])
    ELSE f

\* float(s): ok = FALSE stands for ValueError
float(s) ==
    LET t == strip(s)
        signed == t # <<>> /\ t[1] \in {"-", "+"}
        body == IF signed THEN Tail(t) ELSE t
        dot == IndexFrom(body, ".", 1)
        ip == IF dot = 0 THEN body ELSE SubSeq(body, 1, dot - 1)
        fp == IF dot = 0 THEN <<>> ELSE SubSeq(body, dot + 1, Len(body))
        wellformed == /\ \A i \in 1..Len(ip) : ip[i] \in Digits
                      /\ \A i \in 1..Len(fp) : fp[i] \in Digits
                      /\ Len(ip) + Len(fp) > 0
    IN  IF wellformed
        THEN [ok |-> TRUE,
              val |-> Normal([neg |-> signed /\ t[1] = "-",
                              mant |-> DecimalOf(ip \o fp),
                              exp |-> Len(fp)])]
        ELSE [ok |-> FALSE]

-----------------------------------------------------------------------------
(* buildExample *)

CounterNames == {"partition.train", "partition.validation",
                 "partition.test", "build.failed"}

\* buildExample with feat = [float(el) for el in elements[1:]]
buildExample_featFromLabel(line) ==
    LET elements == split(line, ",")
        key == elements[1]
        floats == [i \in 2..Len(elements) |-> float(elements[i])]
        caught == [out |-> <<>>, failed |-> 1, raised |-> FALSE]
    IN  IF Len(elements) < 2 THEN caught
        ELSE IF \E i \in 2..Len(elements) : ~floats[i].ok THEN caught
        ELSE [out |-> << [id |-> key,
                          label |-> floats[2].val,
                          feat |-> [j \in 1..(Len(elements) - 1) |->
                                        floats[j + 1].val]] >>,
              failed |-> 0, raised |-> FALSE]

\* buildExample with "except ValueError": the IndexError of a line of one
\* field leaves the generator
buildExample_valueErrorOnly(line) ==
    LET elements == split(line, ",")
        key == elements[1]
        floats == [i \in 2..Len(elements) |-> float(elements[i])]
        caught == [out |-> <<>>, failed |-> 1, raised |-> FALSE]
    IN  IF Len(elements) < 2
        THEN [out |-> <<>>, failed |-> 0, raised |-> TRUE]
        ELSE IF \E i \in 2..Len(elements) : ~floats[i].ok THEN caught
        ELSE [out |-> << [id |-> key,
                          label |-> floats[2].val,
                          feat |-> [j \in 1..(Len(elements) - 2) |->
                                        floats[j + 2].val]] >>,
              failed |-> 0, raised |-> FALSE]

\* buildExample without the try block
buildExample_noTry(line) ==
    LET elements == split(line, ",")
        key == elements[1]
        floats == [i \in 2..Len(elements) |-> float(elements[i])]
        thrown == [out |-> <<>>, failed |-> 0, raised |-> TRUE]
    IN  IF Len(elements) < 2 THEN thrown
        ELSE IF \E i \in 2..Len(elements) : ~floats[i].ok THEN thrown
        ELSE [out |-> << [id |-> key,
                          label |-> floats[2].val,
                          feat |-> [j \in 1..(Len(elements) - 2) |->
                                        floats[j + 2].val]] >>,
              failed |-> 0, raised |-> FALSE]

\* buildExample without examples_failed.inc() in the handler
buildExample_uncounted(line) ==
    LET elements == split(line, ",")
        key == elements[1]
        floats == [i \in 2..Len(elements) |-> float(elements[i])]
        caught == [out |-> <<>>, failed |-> 0, raised |-> FALSE]
    IN  IF Len(elements) < 2 THEN caught
        ELSE IF \E i \in 2..Len(elements) : ~floats[i].ok THEN caught
        ELSE [out |-> << [id |-> key,
                          label |-> floats[2].val,
                          feat |-> [j \in 1..(Len(elements) - 2) |->
                                        floats[j + 2].val]] >>,
              failed |-> 0, raised |-> FALSE]

\* the result of running the generator buildExample(raw_input) to its end:
\* out, the values yielded; failed, the examples_failed.inc() calls made;
\* raised, whether an exception left the generator
buildExample(line) ==
    LET elements == split(line, ",")
        key == elements[1]
        floats == [i \in 2..Len(elements) |-> float(elements[i])]
        caught == [out |-> <<>>, failed |-> 1, raised |-> FALSE]
    IN  IF Len(elements) < 2 THEN caught                    \* IndexError
        ELSE IF ~floats[2].ok THEN caught                   \* ValueError
        ELSE IF \E i \in 3..Len(elements) : ~floats[i].ok
             THEN caught                                    \* ValueError
        ELSE [out |-> << [id |-> key,
                          label |-> floats[2].val,
                          feat |-> [j \in 1..(Len(elements) - 2) |->
                                        floats[j + 2].val]] >>,
              failed |-> 0, raised |-> FALSE]

-----------------------------------------------------------------------------
(* One call of buildExample, on any line of at most MaxLen characters *)

NoCounts == [c \in CounterNames |-> 0]

Idle == /\ example = <<>> /\ num_partitions = 0 /\ hashed = 0 /\ returned = -1
        /\ files = <<>> /\ raw = {} /\ examples = {}
        /\ examples_split = <<{}, {}, {}>> /\ sinks = <<>> /\ calls = <<>>

ParseInit ==
    /\ status = "ready"
    /\ counters = NoCounts
    /\ raw_input \in Strings(MaxLen)
    /\ yielded = <<>>
    /\ raised = FALSE
    /\ Idle

CallBuildExample ==
    /\ status = "ready"
    /\ LET r == buildExample(raw_input)
       IN  /\ yielded' = r.out
           /\ raised' = r.raised
           /\ counters' = [counters EXCEPT
                             !["build.failed"] = @ + r.failed]
    /\ status' = "returned"
    /\ UNCHANGED <<raw_input, example, num_partitions, hashed, returned,
                   files, raw, examples, examples_split, sinks, calls>>

ParseNext == CallBuildExample

ParseSpec == ParseInit /\ [][ParseNext]_vars

-----------------------------------------------------------------------------
(* partition_fn *)

distribution == <<80, 10, 10>>

\* np.sum(distribution)
np_sum(d) == d[1] + d[2] + d[3]

\* the values hash() of a str can return, within the bound: any integer but
\* -1, which CPython reserves
HashRange == (-MaxHash..MaxHash) \ {-1}

\* partition_fn with "<=" for "<" in both comparisons
partition_fn_le(ex, n, h) ==
    IF "id" \notin DOMAIN ex
    THEN [ret |-> -1, inc |-> {}, raised |-> TRUE]
    ELSE LET bucket == h % np_sum(distribution)
         IN  IF bucket <= distribution[1]
             THEN [ret |-> 0, inc |-> {"partition.train"}, raised |-> FALSE]
             ELSE IF bucket <= distribution[1] + distribution[2]
             THEN [ret |-> 1, inc |-> {"partition.validation"},
                   raised |-> FALSE]
             ELSE [ret |-> 2, inc |-> {"partition.test"}, raised |-> FALSE]

\* partition_fn with the else branch copied from the elif branch and only
\* its return value changed
partition_fn_copyPaste(ex, n, h) ==
    IF "id" \notin DOMAIN ex
    THEN [ret |-> -1, inc |-> {}, raised |-> TRUE]
    ELSE LET bucket == h % np_sum(distribution)
         IN  IF bucket < distribution[1]
             THEN [ret |-> 0, inc |-> {"partition.train"}, raised |-> FALSE]
             ELSE IF bucket < distribution[1] + distribution[2]
             THEN [ret |-> 1, inc |-> {"partition.validation"},
                   raised |-> FALSE]
             ELSE [ret |-> 2, inc |-> {"partition.validation"},
                   raised |-> FALSE]

\* partition_fn(example, num_partitions) in a process where hash(str(id)) is
\* h: ret, the value returned; inc, the counters it calls inc() on; raised,
\* whether it raises (KeyError when the example has no id).  Python's % with
\* a positive right operand is the floored remainder, as is TLA+'s.
partition_fn(ex, n, h) ==
    IF "id" \notin DOMAIN ex
    THEN [ret |-> -1, inc |-> {}, raised |-> TRUE]
    ELSE LET bucket == h % np_sum(distribution)
         IN  IF bucket < distribution[1]
             THEN [ret |-> 0, inc |-> {"partition.train"}, raised |-> FALSE]
             ELSE IF bucket < distribution[1] + distribution[2]
             THEN [ret |-> 1, inc |-> {"partition.validation"},
                   raised |-> FALSE]
             ELSE [ret |-> 2, inc |-> {"partition.test"}, raised |-> FALSE]

\* counters after inc() on each counter of names
Inc(cs, names) == [c \in CounterNames |-> IF c \in names THEN cs[c] + 1 ELSE cs[c]]

-----------------------------------------------------------------------------
(* One call of partition_fn, on any example buildExample yields for a line   *)
(* of at most MaxExLen characters, with any num_partitions, in any process   *)

ParsedExamples(n) ==
    {buildExample(l).out[1] : l \in {m \in Strings(n) : buildExample(m).out # <<>>}}

PartInit ==
    /\ status = "ready"
    /\ counters = NoCounts
    /\ example \in ParsedExamples(MaxExLen)
    /\ num_partitions \in 0..MaxParts
    /\ hashed = 0
    /\ returned = -1
    /\ raised = FALSE
    /\ raw_input = <<>> /\ yielded = <<>>
    /\ files = <<>> /\ raw = {} /\ examples = {}
    /\ examples_split = <<{}, {}, {}>> /\ sinks = <<>> /\ calls = <<>>

CallPartitionFn ==
    /\ status = "ready"
    /\ \E h \in HashRange :
         LET r == partition_fn(example, num_partitions, h)
         IN  /\ hashed' = h
             /\ returned' = r.ret
             /\ raised' = r.raised
             /\ counters' = Inc(counters, r.inc)
    /\ status' = "returned"
    /\ UNCHANGED <<raw_input, yielded, example, num_partitions, files, raw,
                   examples, examples_split, sinks, calls>>

PartNext == CallPartitionFn

PartSpec == PartInit /\ [][PartNext]_vars

-----------------------------------------------------------------------------
(* The pipeline of main() *)

\* lines of the input files: one that parses, one whose label does not, and
\* one of a single field
LineSet == {<<"1", ",", "1", ",", ".", "1">>, <<"1", ",", "a">>, <<"1">>}

\* the files of at most n lines
FilesUpTo(n) == UNION {[1..m -> LineSet] : m \in 0..n}

RECURSIVE FileSeqs(_, _)
\* the sequences of k files with at most n lines in all
FileSeqs(k, n) ==
    IF k = 0 THEN {<<>>}
    ELSE UNION {{<<f>> \o rest : rest \in FileSeqs(k - 1, n - Len(f))} :
                   f \in FilesUpTo(n)}

\* what DATA_DIR + '/*' can match: at least one file
Inputs == UNION {FileSeqs(k, MaxLines) : k \in 1..MaxFiles}

\* every line of the input, by file and line number
Positions(fs) ==
    UNION {{<<f, i>> : i \in 1..Len(fs[f])} : f \in 1..Len(fs)}

\* hash values partition_fn meets in the pipeline: one per bucket, one of
\* them negative
HashVals == {-15, 7, 95}

\* ReadFromText(DATA_DIR + '/*', skip_header_lines=0)
ReadData_noSkip(fs) ==
    {[src |-> p, line |-> fs[p[1]][p[2]]] : p \in Positions(fs)}

\* 'ReadData': ReadFromText(DATA_DIR + '/*', skip_header_lines=1) emits
\* every line of every matched file but the first of each
ReadData(fs) ==
    {[src |-> p, line |-> fs[p[1]][p[2]]] :
        p \in {q \in Positions(fs) : q[2] > 1}}

Parts == {"train", "validation", "test"}

\* example_dict with validation and test exchanged
example_dict_swapped(part) ==
    CASE part = "train" -> 0
      [] part = "validation" -> 2
      [] part = "test" -> 1

\* example_dict: the output of beam.Partition each part name stands for
example_dict(part) ==
    CASE part = "train" -> 0
      [] part = "validation" -> 1
      [] part = "test" -> 2

\* file_path_prefix of a part, below output_dir: part + '_examples'
file_path_prefix(part) ==
    CASE part = "train" -> "train_examples"
      [] part = "validation" -> "validation_examples"
      [] part = "test" -> "test_examples"

Prefixes == {file_path_prefix(part) : part \in Parts}

Init ==
    /\ status = "constructed"
    /\ counters = NoCounts
    /\ files \in Inputs
    /\ raw = {}
    /\ examples = {}
    /\ examples_split = <<{}, {}, {}>>
    /\ sinks = [f \in Prefixes |-> {}]
    /\ calls = [p \in Positions(files) |-> 0]
    /\ raw_input = <<>> /\ yielded = <<>> /\ raised = FALSE
    /\ example = <<>> /\ num_partitions = 0 /\ hashed = 0 /\ returned = -1

unit == <<raw_input, yielded, raised, example, num_partitions, hashed,
          returned>>

\* p.run(): the runner starts and 'ReadData' emits the lines
Run ==
    /\ status = "constructed"
    /\ status' = "running"
    /\ raw' = ReadData(files)
    /\ UNCHANGED <<counters, files, examples, examples_split, sinks, calls,
                   unit>>

\* buildExample on each line the input can hold, worked out once
Built == [l \in LineSet |-> buildExample(l)]

\* 'buildExamples': FlatMap of buildExample over one line; an exception that
\* leaves the generator fails the job
buildExamples(r) ==
    /\ status = "running"
    /\ r \in raw
    /\ LET b == Built[r.line]
       IN  /\ raw' = raw \ {r}
           /\ examples' = examples \cup
                  {[src |-> r.src, ex |-> b.out[k]] : k \in 1..Len(b.out)}
           /\ counters' = [counters EXCEPT !["build.failed"] = @ + b.failed]
           /\ status' = IF b.raised THEN "failed" ELSE status
    /\ calls' = [calls EXCEPT ![r.src] = @ + 1]
    /\ UNCHANGED <<files, examples_split, sinks, unit>>

\* beam.Partition(partition_fn, 3) on one example, in a worker process where
\* hash(str(id)) is h; a result outside 0..2, or an exception, fails the job
Partition(e) ==
    /\ status = "running"
    /\ e \in examples
    /\ \E h \in HashVals :
         LET r == partition_fn(e.ex, 3, h)
             valid == ~r.raised /\ r.ret \in 0..2
         IN  /\ examples' = examples \ {e}
             /\ counters' = Inc(counters, r.inc)
             /\ examples_split' =
                  IF valid
                  THEN [examples_split EXCEPT ![r.ret + 1] =
                          @ \cup {[src |-> e.src, ex |-> e.ex, ret |-> r.ret]}]
                  ELSE examples_split
             /\ status' = IF valid THEN status ELSE "failed"
    /\ UNCHANGED <<files, raw, sinks, calls, unit>>

\* part + '_writeExamples': WriteToTFRecord of one element of
\* example_dict[part] under the part's file_path_prefix
writeExamples(part, e) ==
    /\ status = "running"
    /\ e \in examples_split[example_dict(part) + 1]
    /\ examples_split' =
         [examples_split EXCEPT ![example_dict(part) + 1] = @ \ {e}]
    /\ sinks' = [sinks EXCEPT ![file_path_prefix(part)] = @ \cup {e}]
    /\ UNCHANGED <<status, counters, files, raw, examples, calls, unit>>

\* p.run() ends when no element is left to process
Finish ==
    /\ status = "running"
    /\ raw = {} /\ examples = {}
    /\ \A i \in 1..3 : examples_split[i] = {}
    /\ status' = "done"
    /\ UNCHANGED <<counters, files, raw, examples, examples_split, sinks,
                   calls, unit>>

Next ==
    \/ Run
    \/ \E r \in raw : buildExamples(r)
    \/ \E e \in examples : Partition(e)
    \/ \E part \in Parts : \E e \in examples_split[example_dict(part) + 1] :
         writeExamples(part, e)
    \/ Finish

Spec == Init /\ [][Next]_vars

\* the runner runs every step that is ready
FairSpec == Spec /\ WF_vars(Next)

-----------------------------------------------------------------------------
(* What the claims speak of *)

\* the line has at least two fields, and every field after the first parses
\* as a floating-point number
WellFormedLine(line) ==
    LET e == split(line, ",")
    IN  Len(e) >= 2 /\ \A i \in 2..Len(e) : float(e[i]).ok

\* the number of comma-separated fields of a line
NumFields(line) == Cardinality({i \in 1..Len(line) : line[i] = ","}) + 1

\* the residue of h modulo 100 that lies in 0..99
Residue(h) ==
    CHOOSE r \in 0..99 :
        \E k \in -(MaxHash \div 100 + 1)..(MaxHash \div 100 + 1) :
            h = 100 * k + r

CounterOfBucket(b) ==
    CASE b = 0 -> "partition.train"
      [] b = 1 -> "partition.validation"
      [] b = 2 -> "partition.test"

SinkOfBucket(b) ==
    CASE b = 0 -> "train_examples"
      [] b = 1 -> "validation_examples"
      [] b = 2 -> "test_examples"

LineAt(p) == files[p[1]][p[2]]

Records == {p \in Positions(files) : p[2] > 1}

Written == UNION {sinks[f] : f \in DOMAIN sinks}

Split == UNION {examples_split[i] : i \in 1..3}

\* the lines of LineSet that are well formed, and the example each is to
\* yield
WellFormedLines == {l \in LineSet : WellFormedLine(l)}

Expected ==
    [l \in WellFormedLines |->
        LET e == split(l, ",")
        IN  [id |-> e[1],
             label |-> float(e[2]).val,
             feat |-> [j \in 1..(NumFields(l) - 2) |-> float(e[j + 2]).val]]]

From(S, p) == Cardinality({e \in S : e.src = p})

\* how many elements of the pipeline stem from the input line at p
Copies(p) ==
    From(raw, p) + From(examples, p) +
    From(examples_split[1], p) + From(examples_split[2], p) +
    From(examples_split[3], p) +
    From(sinks["train_examples"], p) + From(sinks["validation_examples"], p) +
    From(sinks["test_examples"], p)

-----------------------------------------------------------------------------
(* C1 (as claimed; the code does not satisfy it): any two records with the *)
(* same id are assigned the same bucket, whichever worker process          *)
(* partitions them.                                                        *)
C1_SameIdSameBucket ==
    \A f1 \in DOMAIN sinks : \A f2 \in DOMAIN sinks :
        \A e1 \in sinks[f1] : \A e2 \in sinks[f2] :
            e1.ex.id = e2.ex.id => f1 = f2

C3_WellFormedLineYieldsOneExample ==
    /\ (status = "returned" /\ WellFormedLine(raw_input)) =>
          LET e == split(raw_input, ",")
          IN  /\ ~raised
              /\ Len(yielded) = 1
              /\ yielded[1].id = e[1]
              /\ yielded[1].label = float(e[2]).val
              /\ Len(yielded[1].feat) = NumFields(raw_input) - 2
              /\ \A j \in 1..(NumFields(raw_input) - 2) :
                    yielded[1].feat[j] = float(e[j + 2]).val
              /\ counters["build.failed"] = 0
    /\ (status = "returned" /\ raw_input = <<"1", ",", "1", ".", "0">>) =>
          yielded = << [id |-> <<"1">>,
                        label |-> [neg |-> FALSE, mant |-> 1, exp |-> 0],
                        feat |-> <<>>] >>

C3_Witness ==
    /\ status = "returned"
    /\ Len(yielded) = 1
    /\ Len(yielded[1].feat) = 2
    /\ yielded[1].feat[1] # yielded[1].feat[2]

(* C4: a line of fewer than two fields, or with a label or feat field that *)
(* does not parse (an empty field included), yields nothing, adds exactly  *)
(* 1 to build.failed and raises nothing.                                   *)
C4_MalformedLineDroppedAndCounted ==
    (status = "returned" /\ ~WellFormedLine(raw_input)) =>
        /\ yielded = <<>>
        /\ counters["build.failed"] = 1
        /\ ~raised

C4_Witness ==
    /\ status = "returned"
    /\ raw_input = <<"1", ",", "1", ",">>
    /\ yielded = <<>>
    /\ counters["build.failed"] = 1

(* C5: the job never fails, and it completes with every well-formed line   *)
(* after a header written, wherever the malformed lines are.               *)
AllWellFormedWritten ==
    \A p \in Records :
        LineAt(p) \in WellFormedLines => \E e \in Written : e.src = p

C5_MalformedNeverAborts ==
    /\ [](status # "failed")
    /\ <>(status = "done" /\ AllWellFormedWritten)

C5_Witness ==
    /\ status = "done"
    /\ Len(files[1]) = 4
    /\ files[1][2] \in WellFormedLines
    /\ files[1][3] \notin WellFormedLines
    /\ files[1][4] \in WellFormedLines
    /\ counters["build.failed"] = 1
    /\ AllWellFormedWritten

(* C6: every line is passed to the parser at most once and is at one place *)
(* of the pipeline at most; what a sink holds is the example parsed from a *)
(* well-formed line after a header, unchanged, in the sink of the bucket   *)
(* partition_fn returned for it; no line is in two sinks; at the end each  *)
(* well-formed line is in exactly one sink.                                *)
C6_OneRecordOneSink ==
    /\ \A p \in DOMAIN calls : calls[p] <= 1 /\ Copies(p) <= 1
    /\ \A f \in DOMAIN sinks : \A e \in sinks[f] :
          /\ e.src \in Records
          /\ LineAt(e.src) \in WellFormedLines
          /\ e.ex = Expected[LineAt(e.src)]
          /\ e.ret \in 0..2
          /\ f = SinkOfBucket(e.ret)
    /\ status = "done" =>
          \A p \in Records :
              Cardinality({f \in DOMAIN sinks : \E e \in sinks[f] : e.src = p})
                  = IF LineAt(p) \in WellFormedLines THEN 1 ELSE 0

C6_Witness ==
    /\ status = "done"
    /\ sinks["train_examples"] # {}
    /\ sinks["test_examples"] # {}
    /\ counters["build.failed"] = 1

(* C7 (as claimed; the code does not satisfy it): at the end of a job the  *)
(* sinks and the counters are those of a sequential run, in which one      *)
(* process, with one hash value per id, partitions every record.           *)
InputIds == {split(LineAt(p), ",")[1] : p \in Records}

SequentialSink(hf, b) ==
    {p \in Records :
        /\ LineAt(p) \in WellFormedLines
        /\ partition_fn([id |-> split(LineAt(p), ",")[1]], 3,
                        hf[split(LineAt(p), ",")[1]]).ret = b}

C7_ParallelEqualsSequential ==
    status = "done" =>
        \E hf \in [InputIds -> HashVals] :
            /\ \A b \in 0..2 :
                  /\ {e.src : e \in sinks[SinkOfBucket(b)]} =
                         SequentialSink(hf, b)
                  /\ counters[CounterOfBucket(b)] =
                         Cardinality(SequentialSink(hf, b))
            /\ counters["build.failed"] =
                   Cardinality({p \in Records : LineAt(p) \notin WellFormedLines})

(* C8: a step that takes an example through partition_fn adds 1 to the     *)
(* counter of the bucket returned and leaves the other three counters as   *)
(* they are; no step lowers a counter.                                     *)
C8_PartitionCountsReturnedBucket ==
    [][ /\ \A c \in CounterNames : counters'[c] >= counters[c]
        /\ (examples' # examples /\ examples' \subseteq examples) =>
              \E e \in examples \ examples' : \E b \in 0..2 :
                  /\ \E d \in examples_split'[b + 1] \ examples_split[b + 1] :
                        d.src = e.src /\ d.ret = b
                  /\ counters' = [counters EXCEPT
                                    ![CounterOfBucket(b)] = @ + 1] ]_vars

C8_Witness ==
    /\ status = "running"
    /\ counters["partition.train"] = 0
    /\ counters["partition.validation"] = 1
    /\ counters["partition.test"] = 1

(* C9: the first line of each file is never passed to buildExample, is     *)
(* nowhere in the pipeline and in no sink, and is not counted as failed;   *)
(* at the end every other line has been passed to buildExample once.       *)
C9_HeaderSkipped ==
    /\ \A p \in DOMAIN calls :
          /\ calls[p] <= 1
          /\ p[2] = 1 => (calls[p] = 0 /\ Copies(p) = 0)
    /\ counters["build.failed"] <=
           Cardinality({p \in Records : LineAt(p) \notin WellFormedLines})
    /\ status = "done" => \A p \in Records : calls[p] = 1

C9_Witness ==
    /\ status = "done"
    /\ Len(files) = 2
    /\ Len(files[1]) >= 2 /\ files[1][1] \in WellFormedLines
    /\ Len(files[2]) >= 2 /\ files[2][1] \notin WellFormedLines

(* C10: build.failed is the number of lines after a header passed to the   *)
(* parser and dropped; each partition counter is the number of examples    *)
(* routed to its bucket; at the end the four counters add up to the number *)
(* of lines after a header.                                                *)
Dropped ==
    {p \in Records :
        calls[p] > 0 /\ \A e \in examples \cup Split \cup Written : e.src # p}

C10_CounterConservation ==
    /\ counters["build.failed"] = Cardinality(Dropped)
    /\ \A b \in 0..2 :
          counters[CounterOfBucket(b)] =
              Cardinality(examples_split[b + 1] \cup sinks[SinkOfBucket(b)])
    /\ status = "done" =>
          counters["build.failed"] + counters["partition.train"] +
          counters["partition.validation"] + counters["partition.test"]
              = Cardinality(Records)

C10_Witness ==
    /\ status = "done"
    /\ Cardinality(Records) = 3
    /\ counters["build.failed"] = 1
    /\ counters["partition.train"] = 1
    /\ counters["partition.validation"] = 1

=============================================================================
